---- MODULE Spec2Model ----
(***************************************************************************)
(* QueryBuddy: the NL2SQL LangGraph pipeline of src/src/mod/graph.py as    *)
(* driven by process_query of src/app_test.py.                             *)
(*                                                                         *)
(* Text is modelled by TLA+ strings and handled character by character     *)
(* (SubSeq, \o, Len), so extraction, canonicalisation and the keyword      *)
(* denylist are computed the way the Python code computes them.            *)
(***************************************************************************)
EXTENDS Integers, Sequences, FiniteSets, TLC

(***************************************************************************)
(* Bounds of the model.                                                    *)
(***************************************************************************)
MaxRuns == 2

\* number of fragments a model output under test is composed of
MaxParts == 3

(***************************************************************************)
(* String primitives (Python str / re behaviour on the model's alphabet).  *)
(***************************************************************************)
CharAt(s, i) == SubSeq(s, i, i)

Drop(s, n) == SubSeq(s, n + 1, Len(s))

IsSpace(c) == c \in {" ", "\t", "\n", "\r"}

UpperChar(c) ==
    CASE c = "a" -> "A" [] c = "b" -> "B" [] c = "c" -> "C" [] c = "d" -> "D"
      [] c = "e" -> "E" [] c = "f" -> "F" [] c = "g" -> "G" [] c = "h" -> "H"
      [] c = "i" -> "I" [] c = "j" -> "J" [] c = "k" -> "K" [] c = "l" -> "L"
      [] c = "m" -> "M" [] c = "n" -> "N" [] c = "o" -> "O" [] c = "p" -> "P"
      [] c = "q" -> "Q" [] c = "r" -> "R" [] c = "s" -> "S" [] c = "t" -> "T"
      [] c = "u" -> "U" [] c = "v" -> "V" [] c = "w" -> "W" [] c = "x" -> "X"
      [] c = "y" -> "Y" [] c = "z" -> "Z" [] OTHER -> c

RECURSIVE Upper(_)
Upper(s) == IF s = "" THEN "" ELSE UpperChar(CharAt(s, 1)) \o Upper(Drop(s, 1))

StartsWith(s, p) == Len(s) >= Len(p) /\ SubSeq(s, 1, Len(p)) = p

EndsWith(s, p) == Len(s) >= Len(p) /\ SubSeq(s, Len(s) - Len(p) + 1, Len(s)) = p

\* p occurs in s at (1-based) position i
MatchAt(s, p, i) == i >= 1 /\ i + Len(p) - 1 <= Len(s) /\ SubSeq(s, i, i + Len(p) - 1) = p

\* Python's substring test, p in s
Contains(s, p) == \E i \in 1..(Len(s) + 1) : MatchAt(s, p, i)

\* case-insensitive MatchAt (re.IGNORECASE on an upper-case literal p)
MatchAtCI(s, p, i) == i >= 1 /\ i + Len(p) - 1 <= Len(s) /\ Upper(SubSeq(s, i, i + Len(p) - 1)) = p

\* first position >= i that is not whitespace (Len(s)+1 when there is none): greedy \s*
RECURSIVE SkipSpace(_, _)
SkipSpace(s, i) == IF i <= Len(s) /\ IsSpace(CharAt(s, i)) THEN SkipSpace(s, i + 1) ELSE i

\* Python str.strip()
RECURSIVE LStrip(_)
LStrip(s) == IF s # "" /\ IsSpace(CharAt(s, 1)) THEN LStrip(Drop(s, 1)) ELSE s

RECURSIVE RStrip(_)
RStrip(s) == IF s # "" /\ IsSpace(CharAt(s, Len(s))) THEN RStrip(SubSeq(s, 1, Len(s) - 1)) ELSE s

Strip(s) == RStrip(LStrip(s))

\* re.sub(r'\s+', ' ', s)
RECURSIVE CollapseSpace(_)
CollapseSpace(s) ==
    IF s = "" THEN ""
    ELSE IF IsSpace(CharAt(s, 1)) THEN " " \o CollapseSpace(LStrip(s))
    ELSE CharAt(s, 1) \o CollapseSpace(Drop(s, 1))

\* Python str.split('\n')
RECURSIVE SplitLines(_)
SplitLines(s) ==
    IF ~Contains(s, "\n") THEN <<s>>
    ELSE LET i == CHOOSE k \in 1..Len(s) : CharAt(s, k) = "\n" /\ \A j \in 1..(k - 1) : CharAt(s, j) # "\n"
         IN  <<SubSeq(s, 1, i - 1)>> \o SplitLines(Drop(s, i))

\* Python ' '.join(lines) and "\n".join(lines)
RECURSIVE Join(_, _)
Join(sep, lines) ==
    IF lines = <<>> THEN ""
    ELSE IF Len(lines) = 1 THEN lines[1]
    ELSE lines[1] \o sep \o Join(sep, Tail(lines))

(***************************************************************************)
(* SQLQueryValidator.clean_and_extract_sql                                 *)
(***************************************************************************)
\* re.sub(r'<think>.*?</think>', '', content, flags=re.DOTALL)
RECURSIVE RemoveThink(_)
RemoveThink(s) ==
    IF s = "" THEN ""
    ELSE IF StartsWith(s, "<think>") /\ Contains(Drop(s, 7), "</think>")
         THEN LET r == Drop(s, 7)
                  j == CHOOSE k \in 1..Len(r) : MatchAt(r, "</think>", k)
                                                /\ \A m \in 1..(k - 1) : ~MatchAt(r, "</think>", m)
              IN  RemoveThink(Drop(r, j + 7))
    ELSE CharAt(s, 1) \o RemoveThink(Drop(s, 1))

\* re.sub(fence + r'\n?', '', content) for the two markdown fences
RECURSIVE RemoveFence(_, _)
RemoveFence(s, fence) ==
    IF s = "" THEN ""
    ELSE IF StartsWith(s, fence)
         THEN LET r == Drop(s, Len(fence))
              IN  RemoveFence(IF StartsWith(r, "\n") THEN Drop(r, 1) ELSE r, fence)
    ELSE CharAt(s, 1) \o RemoveFence(Drop(s, 1), fence)

\* The markdown fences. A TLA+ string literal cannot hold a backquote, so the
\* model's alphabet writes the backquote character as ^.
Fence == "^^^"

FenceSql == Fence \o "sql"

\* the anchor of a line start under re.MULTILINE: position i of s is the start of a line
AtLineStart(s, i) == i = 1 \/ CharAt(s, i - 1) = "\n"

\* end (exclusive) of a match of r'sql\s*query:\s*' at i, or 0 when there is none
SqlQueryLabelEnd(s, i) ==
    IF MatchAtCI(s, "SQL", i) /\ MatchAtCI(s, "QUERY:", SkipSpace(s, i + 3))
    THEN SkipSpace(s, SkipSpace(s, i + 3) + 6)
    ELSE 0

\* end (exclusive) of a match of r'sql:\s*' at i, or 0 when there is none
SqlLabelEnd(s, i) == IF MatchAtCI(s, "SQL:", i) THEN SkipSpace(s, i + 4) ELSE 0

\* re.sub(r'^sql\s*query:\s*', '', s, flags=re.IGNORECASE | re.MULTILINE), scanning from i
RECURSIVE RemoveSqlQueryLabel(_, _)
RemoveSqlQueryLabel(s, i) ==
    IF i > Len(s) THEN ""
    ELSE IF AtLineStart(s, i) /\ SqlQueryLabelEnd(s, i) # 0
         THEN RemoveSqlQueryLabel(s, SqlQueryLabelEnd(s, i))
    ELSE CharAt(s, i) \o RemoveSqlQueryLabel(s, i + 1)

\* re.sub(r'^sql:\s*', '', s, flags=re.IGNORECASE | re.MULTILINE), scanning from i
RECURSIVE RemoveSqlLabel(_, _)
RemoveSqlLabel(s, i) ==
    IF i > Len(s) THEN ""
    ELSE IF AtLineStart(s, i) /\ SqlLabelEnd(s, i) # 0
         THEN RemoveSqlLabel(s, SqlLabelEnd(s, i))
    ELSE CharAt(s, i) \o RemoveSqlLabel(s, i + 1)

\* the cleaning with a greedy think pattern: one block from the first opening tag
\* that has a closing tag after it to the last closing tag
CleanContent_greedy_think(v) ==
    LET opens == {i \in 1..Len(v) : MatchAt(v, "<think>", i) /\ Contains(Drop(v, i + 6), "</think>")}
        i == CHOOSE k \in opens : \A m \in opens : k <= m
        j == CHOOSE k \in 1..Len(v) :
                 /\ MatchAt(v, "</think>", k)
                 /\ \A m \in (k + 1)..Len(v) : ~MatchAt(v, "</think>", m)
        content == IF opens = {} THEN v ELSE SubSeq(v, 1, i - 1) \o Drop(v, j + 7)
    IN  RemoveSqlLabel(RemoveSqlQueryLabel(RemoveFence(RemoveFence(content, FenceSql), Fence), 1), 1)

\* Steps 1 and 2 of clean_and_extract_sql
CleanContent(v) ==
    RemoveSqlLabel(RemoveSqlQueryLabel(RemoveFence(RemoveFence(RemoveThink(v), FenceSql), Fence), 1), 1)

\* re.search(r'(SELECT\s+.*?;)', content, re.DOTALL | re.IGNORECASE) matches at i
SelectPatternAt(s, i) ==
    /\ MatchAtCI(s, "SELECT", i)
    /\ i + 6 <= Len(s) /\ IsSpace(CharAt(s, i + 6))
    /\ \E j \in (i + 7)..Len(s) : CharAt(s, j) = ";"

HasSelectPattern(s) == \E i \in 1..Len(s) : SelectPatternAt(s, i)

\* group(1) of the leftmost match, the lazy .*? stopping at the first ';'
SelectPattern(s) ==
    LET i == CHOOSE k \in 1..Len(s) : SelectPatternAt(s, k) /\ \A m \in 1..(k - 1) : ~SelectPatternAt(s, m)
        j == CHOOSE k \in (i + 7)..Len(s) : CharAt(s, k) = ";" /\ \A m \in (i + 7)..(k - 1) : CharAt(s, m) # ";"
    IN  SubSeq(s, i, j)

\* lines = [line.strip() for line in content.split('\n') if line.strip()]
RECURSIVE StrippedLines(_)
StrippedLines(raw) ==
    IF raw = <<>> THEN <<>>
    ELSE IF Strip(raw[1]) = "" THEN StrippedLines(Tail(raw))
    ELSE <<Strip(raw[1])>> \o StrippedLines(Tail(raw))

\* Strategy 2: the for loop over lines with the capturing flag
RECURSIVE CaptureLines(_, _)
CaptureLines(lines, capturing) ==
    IF lines = <<>> THEN <<>>
    ELSE LET line == lines[1]
             cap  == capturing \/ StartsWith(Upper(line), "SELECT")
         IN  IF ~cap THEN CaptureLines(Tail(lines), FALSE)
             ELSE IF EndsWith(line, ";") THEN <<line>>
             ELSE <<line>> \o CaptureLines(Tail(lines), TRUE)

\* Strategy 3: first line containing SELECT, else the whole stripped content
RECURSIVE FirstSelectLine(_, _)
FirstSelectLine(lines, content) ==
    IF lines = <<>> THEN Strip(content)
    ELSE IF Contains(Upper(lines[1]), "SELECT") THEN lines[1]
    ELSE FirstSelectLine(Tail(lines), content)

\* the strategies with the line capture tried before the SELECT ... ; search
ExtractCandidate_lines_first(content) ==
    LET lines     == StrippedLines(SplitLines(content))
        sql_lines == CaptureLines(lines, FALSE)
    IN  IF sql_lines # <<>> THEN Join(" ", sql_lines)
        ELSE IF HasSelectPattern(content) THEN SelectPattern(content)
        ELSE FirstSelectLine(lines, content)

\* the strategies with the last-resort line cut down to start at its SELECT
ExtractCandidate_from_select(content) ==
    IF HasSelectPattern(content) THEN SelectPattern(content)
    ELSE LET lines     == StrippedLines(SplitLines(content))
             sql_lines == CaptureLines(lines, FALSE)
             line      == FirstSelectLine(lines, content)
             at        == {i \in 1..Len(line) : MatchAtCI(line, "SELECT", i)}
         IN  IF sql_lines # <<>> THEN Join(" ", sql_lines)
             ELSE IF at = {} THEN line
             ELSE Drop(line, (CHOOSE i \in at : \A k \in at : i <= k) - 1)

\* Step 3: the extraction strategies in order
ExtractCandidate(content) ==
    IF HasSelectPattern(content) THEN SelectPattern(content)
    ELSE LET lines     == StrippedLines(SplitLines(content))
             sql_lines == CaptureLines(lines, FALSE)
         IN  IF sql_lines # <<>> THEN Join(" ", sql_lines)
             ELSE FirstSelectLine(lines, content)

\* the final cleanup appending a semicolon without looking at the end of the text
FinalCleanup_always_appends(extracted_sql) ==
    LET a == CollapseSpace(Strip(extracted_sql))
        b == IF EndsWith(a, ".") THEN SubSeq(a, 1, Len(a) - 1) ELSE a
    IN  b \o ";"

\* Step 4: final cleanup
FinalCleanup(extracted_sql) ==
    LET a == CollapseSpace(Strip(extracted_sql))
        b == IF EndsWith(a, ".") THEN SubSeq(a, 1, Len(a) - 1) ELSE a
    IN  IF ~EndsWith(b, ";") THEN b \o ";" ELSE b

clean_and_extract_sql(v) == FinalCleanup(ExtractCandidate(CleanContent(v)))

(***************************************************************************)
(* SQLQueryValidator.must_be_select_query / check_prohibited_keywords      *)
(***************************************************************************)
prohibited_keywords ==
    <<"INSERT", "UPDATE", "DELETE", "DROP", "ALTER", "CREATE",
      "TRUNCATE", "REPLACE", "MERGE", "GRANT", "REVOKE">>

\* the prefix test weakened to a substring test
must_be_select_query_anywhere(v) == Contains(Upper(v), "SELECT")

must_be_select_query(v) == StartsWith(Upper(v), "SELECT")

\* index of the first prohibited keyword found in the upper-cased statement, 0 if none
FirstProhibited(v) ==
    LET hits == {k \in 1..Len(prohibited_keywords) : Contains(Upper(v), prohibited_keywords[k])}
    IN  IF hits = {} THEN 0 ELSE CHOOSE k \in hits : \A m \in hits : k <= m

\* the denylist applied to whole words only: a keyword inside an identifier is let through
check_prohibited_keywords_whole_word(v) ==
    LET u == Upper(v)
        WordChar(i) == i >= 1 /\ i <= Len(u)
                       /\ Contains("ABCDEFGHIJKLMNOPQRSTUVWXYZ0123456789_", CharAt(u, i))
    IN  \A k \in 1..Len(prohibited_keywords) : \A i \in 1..Len(u) :
            MatchAt(u, prohibited_keywords[k], i) =>
                (WordChar(i - 1) \/ WordChar(i + Len(prohibited_keywords[k])))

check_prohibited_keywords(v) == FirstProhibited(v) = 0

\* Construction of SQLQueryValidator(sql_query=v): the validated value or the ValueError text
SQLQueryValidator(v) ==
    LET c == clean_and_extract_sql(v)
    IN  IF ~must_be_select_query(c)
        THEN [ok |-> FALSE, sql_query |-> "", error |-> "Only SELECT queries are allowed"]
        ELSE IF ~check_prohibited_keywords(c)
        THEN [ok |-> FALSE, sql_query |-> "",
              error |-> "Prohibited SQL operation detected: " \o prohibited_keywords[FirstProhibited(c)]]
        ELSE [ok |-> TRUE, sql_query |-> c, error |-> ""]

(***************************************************************************)
(* The pipeline state (NL2SQLState) and the compiled graph.                *)
(***************************************************************************)
Threads == {"A", "B"}

START == "START"

END == "END"

\* workflow.invoke raised: process_query returns "Query processing failed: ..."
RAISED == "RAISED"

Nodes ==
    {"analyze_schema", "find_relevant_tables", "generate_sql",
     "execute_query", "format_results", "explain_query"}

\* the edges with execute_query left out of the chain
EdgeSkippingExecute ==
    [START                |-> "analyze_schema",
     analyze_schema       |-> "find_relevant_tables",
     find_relevant_tables |-> "generate_sql",
     generate_sql         |-> "format_results",
     execute_query        |-> "format_results",
     format_results       |-> "explain_query",
     explain_query        |-> END]

\* workflow.add_edge(...): the successor of every node
Edge ==
    [START                |-> "analyze_schema",
     analyze_schema       |-> "find_relevant_tables",
     find_relevant_tables |-> "generate_sql",
     generate_sql         |-> "execute_query",
     execute_query        |-> "format_results",
     format_results       |-> "explain_query",
     explain_query        |-> END]

\* the channels of a thread before its first checkpoint
EmptyState ==
    [question |-> "", sql_dialect |-> "", db_schema |-> "", relevant_tables |-> <<>>,
     sql_query |-> "", query_results |-> <<>>, formatted_response |-> "",
     explanation |-> "", error_message |-> "", chat_history |-> <<>>]

\* current_state built by process_query for one question
CurrentState(question) ==
    [question |-> question, sql_dialect |-> "sqlite", db_schema |-> "", relevant_tables |-> <<>>,
     sql_query |-> "", query_results |-> <<>>, formatted_response |-> "",
     explanation |-> "", error_message |-> "", chat_history |-> <<>>]

\* workflow.invoke(input, config) on a checkpointed thread: every channel is a
\* last-value channel (NL2SQLState declares no reducer), so each key of the
\* input replaces the checkpointed value and the other keys keep theirs
ApplyInput(checkpoint, input) ==
    [k \in DOMAIN checkpoint |-> IF k \in DOMAIN input THEN input[k] ELSE checkpoint[k]]

\* a saver that ignores the thread id
CheckpointShared(memory, t, st) == [u \in DOMAIN memory |-> st]

\* the MemorySaver is keyed by the thread id of the config
Checkpoint(memory, t, st) == [memory EXCEPT ![t] = st]

(***************************************************************************)
(* The external collaborators: what a call can return or raise.            *)
(***************************************************************************)
\* the DatabaseConnection handed to build_graph: absent, not connected, connected
DbConnections ==
    {[present |-> FALSE, db |-> FALSE, engine |-> FALSE],
     [present |-> TRUE,  db |-> FALSE, engine |-> FALSE],
     [present |-> TRUE,  db |-> TRUE,  engine |-> TRUE]}

Connected == [present |-> TRUE, db |-> TRUE, engine |-> TRUE]

Questions == [A |-> {"qa", "qa2"}, B |-> {"qb"}]

\* texts the model may put in the sql_query field of its structured answer
ModelOutputs ==
    {"SELECT a FROM t;",
     "<think>DROP x;</think>" \o FenceSql \o "\nselect a\nfrom t\n" \o Fence,
     "SELECT a FROM t; DROP TABLE t;",
     "SELECT updated_at FROM t",
     "DELETE FROM t;",
     "Sorry, no query",
     "Use: SELECT 1"}

\* db_connection.get_schema_info()
SchemaOutcomes(full) ==
    {[raises |-> FALSE, value |-> "t(a)", error |-> ""]}
    \cup (IF full THEN {[raises |-> TRUE, value |-> "", error |-> "no schema"]} ELSE {})

\* the structured table-selection call
TableOutcomes(full) ==
    {[raises |-> FALSE, value |-> <<"t">>, error |-> ""]}
    \cup (IF full THEN {[raises |-> FALSE, value |-> <<>>, error |-> ""],
                        [raises |-> TRUE, value |-> <<>>, error |-> "llm down"]}
          ELSE {})

\* the structured generation call
SqlOutcomes(full) ==
    {[raises |-> FALSE, value |-> v, error |-> ""] :
        v \in IF full THEN ModelOutputs ELSE {"SELECT a FROM t;"}}
    \cup (IF full THEN {[raises |-> TRUE, value |-> "", error |-> "llm down"]} ELSE {})

\* engine.connect() / connection.execute(): sent tells whether the statement
\* reached the database before the call returned or raised
ExecOutcomes(full) ==
    {[raises |-> FALSE, sent |-> TRUE, value |-> <<[a |-> 1]>>, error |-> ""],
     [raises |-> FALSE, sent |-> TRUE, value |-> <<>>, error |-> ""]}
    \cup (IF full THEN {[raises |-> TRUE, sent |-> TRUE, value |-> <<>>, error |-> "no such column"],
                        [raises |-> TRUE, sent |-> FALSE, value |-> <<>>, error |-> "cannot connect"]}
          ELSE {})

\* the formatting call: the answer names the question it was asked
FormatOutcomes(full, question) ==
    {[raises |-> FALSE, value |-> " re " \o question \o "\n", error |-> ""],
     [raises |-> TRUE, value |-> "", error |-> "llm down"]}
    \cup (IF full THEN {[raises |-> FALSE, value |-> " \n", error |-> ""]} ELSE {})

\* the explanation call
ExplainOutcomes(full) ==
    {[raises |-> FALSE, value |-> " it selects a \n", error |-> ""]}
    \cup (IF full THEN {[raises |-> FALSE, value |-> "", error |-> ""],
                        [raises |-> TRUE, value |-> "", error |-> "llm down"]}
          ELSE {})

(***************************************************************************)
(* The stage functions. Each returns the new state, the number of model    *)
(* calls it made and the statements it sent to the database; raised tells  *)
(* whether an exception left the function instead (every body is a try     *)
(* with an except Exception that returns the state, so it never does).     *)
(***************************************************************************)
Result(st, llm, sent, context) ==
    [st |-> st, llm |-> llm, sent |-> sent, context |-> context, raised |-> FALSE]

\* analyze_schema asking the schema provider before it tests the connection
analyze_schema_fetching_first(state, conn, o) ==
    IF o.raises
    THEN Result([state EXCEPT !.error_message = "Error analyzing schema: " \o o.error], 0, <<>>, <<>>)
    ELSE IF ~conn.present \/ ~conn.db
    THEN Result([state EXCEPT !.error_message = "No database connection established"], 0, <<>>, <<>>)
    ELSE Result([state EXCEPT !.db_schema = o.value], 0, <<>>, <<>>)

analyze_schema(state, conn, o) ==
    IF ~conn.present \/ ~conn.db
    THEN Result([state EXCEPT !.error_message = "No database connection established"], 0, <<>>, <<>>)
    ELSE IF ~o.raises
    THEN Result([state EXCEPT !.db_schema = o.value], 0, <<>>, <<>>)
    ELSE Result([state EXCEPT !.error_message = "Error analyzing schema: " \o o.error], 0, <<>>, <<>>)

\* select_relevant_tables treating an empty selection as a failure
select_relevant_tables_requiring_tables(state, o) ==
    IF ~o.raises /\ o.value # <<>>
    THEN Result([state EXCEPT !.relevant_tables = o.value], 1, <<>>, <<>>)
    ELSE Result([state EXCEPT !.error_message = "Error selecting tables: " \o o.error], 1, <<>>, <<>>)

select_relevant_tables(state, o) ==
    IF ~o.raises
    THEN Result([state EXCEPT !.relevant_tables = o.value], 1, <<>>, <<>>)
    ELSE Result([state EXCEPT !.error_message = "Error selecting tables: " \o o.error], 1, <<>>, <<>>)

\* what with_structured_output(SQLQueryValidator) builds from each model output
StructuredOutput == [v \in ModelOutputs |-> SQLQueryValidator(v)]

\* generate_sql storing the model's text even when the validators reject it
generate_sql_keeping_rejected(state, o) ==
    IF o.raises
    THEN Result([state EXCEPT !.error_message = "Error generating SQL: " \o o.error], 1, <<>>, <<>>)
    ELSE LET response == StructuredOutput[o.value]
         IN  IF response.ok
             THEN Result([state EXCEPT !.sql_query = response.sql_query], 1, <<>>, <<>>)
             ELSE Result([state EXCEPT !.sql_query = o.value,
                                       !.error_message = "Error generating SQL: " \o response.error],
                         1, <<>>, <<>>)

generate_sql(state, o) ==
    IF o.raises
    THEN Result([state EXCEPT !.error_message = "Error generating SQL: " \o o.error], 1, <<>>, <<>>)
    ELSE LET response == StructuredOutput[o.value]
         IN  IF response.ok
             THEN Result([state EXCEPT !.sql_query = response.sql_query], 1, <<>>, <<>>)
             ELSE Result([state EXCEPT !.error_message = "Error generating SQL: " \o response.error],
                         1, <<>>, <<>>)

\* execute_query clearing error_message once the statement has run
execute_query_resetting_error(state, conn, o) ==
    IF ~conn.present \/ ~conn.engine
    THEN Result([state EXCEPT !.error_message = "No database connection available"], 0, <<>>, <<>>)
    ELSE IF state.sql_query = ""
    THEN Result([state EXCEPT !.error_message = "No SQL query to execute"], 0, <<>>, <<>>)
    ELSE LET sent == IF o.sent THEN <<state.sql_query>> ELSE <<>>
         IN  IF ~o.raises
             THEN Result([state EXCEPT !.query_results = o.value, !.error_message = ""], 0, sent, <<>>)
             ELSE Result([state EXCEPT !.error_message =
                              "Unexpected error during query execution: " \o o.error], 0, sent, <<>>)

execute_query(state, conn, o) ==
    IF ~conn.present \/ ~conn.engine
    THEN Result([state EXCEPT !.error_message = "No database connection available"], 0, <<>>, <<>>)
    ELSE IF state.sql_query = ""
    THEN Result([state EXCEPT !.error_message = "No SQL query to execute"], 0, <<>>, <<>>)
    ELSE LET sent == IF o.sent THEN <<state.sql_query>> ELSE <<>>
         IN  IF ~o.raises
             THEN Result([state EXCEPT !.query_results = o.value], 0, sent, <<>>)
             ELSE Result([state EXCEPT !.error_message =
                              "Unexpected error during query execution: " \o o.error], 0, sent, <<>>)

\* the error_analysis call of SQLChain._execute_query
DiagnosticOutcomes ==
    {[raises |-> FALSE, value |-> "column a does not exist", error |-> ""],
     [raises |-> FALSE, value |-> "", error |-> ""],
     [raises |-> TRUE, value |-> "", error |-> "llm down"]}

\* SQLChain._execute_query with the analysis put in place of the database error
SQLChain_execute_query_analysis_only(state, conn, o, sqlalchemy, d) ==
    IF ~conn.present \/ ~conn.engine
    THEN Result([state EXCEPT !.error_message = "No database connection available"], 0, <<>>, <<>>)
    ELSE IF state.sql_query = ""
    THEN Result([state EXCEPT !.error_message = "No SQL query to execute"], 0, <<>>, <<>>)
    ELSE LET sent == IF o.sent THEN <<state.sql_query>> ELSE <<>>
         IN  IF ~o.raises
             THEN Result([state EXCEPT !.query_results = o.value], 0, sent, <<>>)
             ELSE IF ~sqlalchemy
             THEN Result([state EXCEPT !.error_message =
                              "Unexpected error during query execution: " \o o.error], 0, sent, <<>>)
             ELSE IF ~d.raises
             THEN Result([state EXCEPT !.error_message = "Analysis: " \o d.value], 1, sent, <<>>)
             ELSE Result([state EXCEPT !.error_message = "SQL execution error: " \o o.error],
                         1, sent, <<>>)

\* SQLChain._execute_query (chain.py): the execute stage with the diagnostic call;
\* sqlalchemy tells whether the failure is a SQLAlchemyError
SQLChain_execute_query(state, conn, o, sqlalchemy, d) ==
    IF ~conn.present \/ ~conn.engine
    THEN Result([state EXCEPT !.error_message = "No database connection available"], 0, <<>>, <<>>)
    ELSE IF state.sql_query = ""
    THEN Result([state EXCEPT !.error_message = "No SQL query to execute"], 0, <<>>, <<>>)
    ELSE LET sent == IF o.sent THEN <<state.sql_query>> ELSE <<>>
         IN  IF ~o.raises
             THEN Result([state EXCEPT !.query_results = o.value], 0, sent, <<>>)
             ELSE IF ~sqlalchemy
             THEN Result([state EXCEPT !.error_message =
                              "Unexpected error during query execution: " \o o.error], 0, sent, <<>>)
             ELSE IF ~d.raises
             THEN Result([state EXCEPT !.error_message =
                              "SQL execution error: " \o o.error \o "\n\nAnalysis: " \o d.value],
                         1, sent, <<>>)
             ELSE Result([state EXCEPT !.error_message = "SQL execution error: " \o o.error],
                         1, sent, <<>>)

NoResultsMessage == "No results found for your query."

\* number of turns of the history put into the formatting prompt
HistoryWindow == 4

\* state["chat_history"][-4:]
RecentHistory(chat_history) ==
    IF Len(chat_history) <= HistoryWindow THEN chat_history
    ELSE SubSeq(chat_history, Len(chat_history) - HistoryWindow + 1, Len(chat_history))

\* "\n".join([f"{msg['role']}: {msg['content']}" for msg in recent_history])
HistoryString(turns) == Join("\n", [i \in 1..Len(turns) |-> turns[i].role \o ": " \o turns[i].content])

\* format_results without the early return on an empty result set
format_results_always_calls(state, o) ==
    IF state.error_message # ""
    THEN Result(state, 0, <<>>, <<>>)
    ELSE IF ~o.raises
    THEN Result([state EXCEPT !.formatted_response = Strip(o.value)], 1, <<>>, <<"">>)
    ELSE Result([state EXCEPT !.error_message = "Error formatting results: " \o o.error], 1, <<>>, <<"">>)

format_results(state, o) ==
    IF state.error_message # ""
    THEN Result(state, 0, <<>>, <<>>)
    ELSE IF state.query_results = <<>>
    THEN Result([state EXCEPT !.formatted_response = NoResultsMessage], 0, <<>>, <<>>)
    ELSE LET chat_history_str ==
                 IF state.chat_history # <<>> THEN HistoryString(RecentHistory(state.chat_history)) ELSE ""
         IN  IF ~o.raises
             THEN Result([state EXCEPT !.formatted_response = Strip(o.value)], 1, <<>>, <<chat_history_str>>)
             ELSE Result([state EXCEPT !.error_message = "Error formatting results: " \o o.error],
                         1, <<>>, <<chat_history_str>>)

\* explain_query without the test on error_message
explain_query_ignoring_error(state, o) ==
    IF ~o.raises
    THEN Result([state EXCEPT !.explanation = Strip(o.value)], 1, <<>>, <<>>)
    ELSE Result([state EXCEPT !.error_message = "Error generating explanation: " \o o.error], 1, <<>>, <<>>)

\* explain_query dropping the formatted answer when the model call fails
explain_query_dropping_answer(state, o) ==
    IF state.error_message # ""
    THEN Result(state, 0, <<>>, <<>>)
    ELSE IF ~o.raises
    THEN Result([state EXCEPT !.explanation = Strip(o.value)], 1, <<>>, <<>>)
    ELSE Result([state EXCEPT !.error_message = "Error generating explanation: " \o o.error,
                              !.formatted_response = ""], 1, <<>>, <<>>)

\* explain_query without its except branch: a failing model call leaves the function
explain_query_uncaught(state, o) ==
    IF state.error_message # ""
    THEN Result(state, 0, <<>>, <<>>)
    ELSE IF ~o.raises
    THEN Result([state EXCEPT !.explanation = Strip(o.value)], 1, <<>>, <<>>)
    ELSE [Result(state, 1, <<>>, <<>>) EXCEPT !.raised = TRUE]

explain_query(state, o) ==
    IF state.error_message # ""
    THEN Result(state, 0, <<>>, <<>>)
    ELSE IF ~o.raises
    THEN Result([state EXCEPT !.explanation = Strip(o.value)], 1, <<>>, <<>>)
    ELSE Result([state EXCEPT !.error_message = "Error generating explanation: " \o o.error], 1, <<>>, <<>>)

\* the memory update without the test on formatted_response
UpdateMemoryUnlessError(state) ==
    IF state.error_message = ""
    THEN [state EXCEPT !.chat_history =
              @ \o <<[role |-> "user", content |-> state.question],
                     [role |-> "assistant", content |-> state.formatted_response]>>]
    ELSE state

\* the memory update recording the answer without the question
UpdateMemory_answer_only(state) ==
    IF state.error_message = "" /\ state.formatted_response # ""
    THEN [state EXCEPT !.chat_history =
              @ \o <<[role |-> "assistant", content |-> state.formatted_response]>>]
    ELSE state

\* the memory update of the format_results node
UpdateMemory(state) ==
    IF state.error_message = "" /\ state.formatted_response # ""
    THEN [state EXCEPT !.chat_history =
              @ \o <<[role |-> "user", content |-> state.question],
                     [role |-> "assistant", content |-> state.formatted_response]>>]
    ELSE state

\* build_graph._format_results
format_results_node(state, o) ==
    LET r == format_results(state, o)
    IN  [r EXCEPT !.st = UpdateMemory(r.st)]

(***************************************************************************)
(* The state machine: one compiled workflow with its MemorySaver, driven   *)
(* by process_query, one run at a time per thread id.                      *)
(***************************************************************************)
VARIABLES
    db_connection,   \* the connection object build_graph closed over
    env,             \* the thread ids in use and how much the collaborators may vary
    pc,              \* per thread: START, the node about to run, or END
    state,           \* per thread: the checkpointed channel values (NL2SQLState)
    runs,            \* per thread: number of runs started
    trace,           \* per thread: the nodes executed in the current run, in order
    llm_calls,       \* per thread: model calls made by each node in the current run
    db_calls,        \* per thread: statements sent to the database in the current run
    first_error,     \* per thread: the fields at the moment the run's first error was set
    format_context,  \* per thread: chat_history_str of the formatting calls of the current run
    session_turns,   \* per thread: every turn appended to the history, in completion order
    prior_turns,     \* per thread: session_turns when the current run started
    model_output,    \* the text of a model answer handed to SQLQueryValidator on its own
    parts,           \* the number of fragments model_output is composed of
    response         \* what constructing SQLQueryValidator(sql_query=model_output) gave

vars ==
    <<db_connection, env, pc, state, runs, trace, llm_calls, db_calls,
      first_error, format_context, session_turns, prior_turns,
      model_output, parts, response>>

\* no SQLQueryValidator has been constructed from model_output yet
NotValidated == [done |-> FALSE, cleaned |-> "", ok |-> FALSE, sql_query |-> "", error |-> ""]

NoError ==
    [set |-> FALSE, error_message |-> "", query_results |-> <<>>,
     formatted_response |-> "", explanation |-> ""]

InitWith(sessions, full) ==
    /\ db_connection \in DbConnections
    /\ env = [sessions |-> sessions, full |-> full]
    /\ pc = [t \in Threads |-> START]
    /\ state = [t \in Threads |-> EmptyState]
    /\ runs = [t \in Threads |-> 0]
    /\ trace = [t \in Threads |-> <<>>]
    /\ llm_calls = [t \in Threads |-> [n \in Nodes |-> 0]]
    /\ db_calls = [t \in Threads |-> <<>>]
    /\ first_error = [t \in Threads |-> NoError]
    /\ format_context = [t \in Threads |-> <<>>]
    /\ session_turns = [t \in Threads |-> <<>>]
    /\ prior_turns = [t \in Threads |-> <<>>]
    /\ model_output = ""
    /\ parts = 0
    /\ response = NotValidated

\* one front-end session, collaborators free to return anything or raise
Init == InitWith({"A"}, TRUE)

\* two sessions on the same workflow, collaborators restricted
InitSessions == InitWith(Threads, FALSE) /\ db_connection = Connected

\* process_query: a new question is invoked on the thread of the session
Invoke(t) ==
    /\ t \in env.sessions
    /\ pc[t] \in {START, END}
    /\ runs[t] < MaxRuns
    /\ \E question \in Questions[t] :
           state' = Checkpoint(state, t, ApplyInput(state[t], CurrentState(question)))
    /\ pc' = [pc EXCEPT ![t] = Edge[START]]
    /\ runs' = [runs EXCEPT ![t] = @ + 1]
    /\ trace' = [trace EXCEPT ![t] = <<>>]
    /\ llm_calls' = [llm_calls EXCEPT ![t] = [n \in Nodes |-> 0]]
    /\ db_calls' = [db_calls EXCEPT ![t] = <<>>]
    /\ first_error' = [first_error EXCEPT ![t] = NoError]
    /\ format_context' = [format_context EXCEPT ![t] = <<>>]
    /\ prior_turns' = [prior_turns EXCEPT ![t] = session_turns[t]]
    /\ UNCHANGED <<db_connection, env, session_turns, model_output, parts, response>>

\* a node of thread t returns r: the channels are checkpointed and the edge followed
NodeReturns(t, node, r) ==
    /\ state' = Checkpoint(state, t, r.st)
    /\ pc' = [pc EXCEPT ![t] = IF r.raised THEN RAISED ELSE Edge[node]]
    /\ trace' = [trace EXCEPT ![t] = Append(@, node)]
    /\ llm_calls' = [llm_calls EXCEPT ![t][node] = @ + r.llm]
    /\ db_calls' = [db_calls EXCEPT ![t] =
           @ \o [i \in 1..Len(r.sent) |->
                    [sql |-> r.sent[i], error_message |-> state[t].error_message,
                     engine |-> db_connection.present /\ db_connection.engine]]]
    /\ first_error' = [first_error EXCEPT ![t] =
           IF ~@.set /\ r.st.error_message # ""
           THEN [set |-> TRUE, error_message |-> r.st.error_message,
                 query_results |-> r.st.query_results,
                 formatted_response |-> r.st.formatted_response,
                 explanation |-> r.st.explanation]
           ELSE @]
    /\ format_context' = [format_context EXCEPT ![t] = @ \o r.context]
    /\ session_turns' = [session_turns EXCEPT ![t] =
           @ \o SubSeq(r.st.chat_history, Len(state[t].chat_history) + 1, Len(r.st.chat_history))]
    /\ UNCHANGED <<db_connection, env, runs, prior_turns, model_output, parts, response>>

\* build_graph._analyze_schema (the state handed in always carries chat_history)
AnalyzeSchema(t) ==
    /\ pc[t] = "analyze_schema"
    /\ \E o \in SchemaOutcomes(env.full) :
           NodeReturns(t, "analyze_schema", analyze_schema(state[t], db_connection, o))

\* build_graph._find_relevant_tables
FindRelevantTables(t) ==
    /\ pc[t] = "find_relevant_tables"
    /\ \E o \in TableOutcomes(env.full) :
           NodeReturns(t, "find_relevant_tables", select_relevant_tables(state[t], o))

\* build_graph._generate_sql
GenerateSql(t) ==
    /\ pc[t] = "generate_sql"
    /\ \E o \in SqlOutcomes(env.full) :
           NodeReturns(t, "generate_sql", generate_sql(state[t], o))

\* build_graph._execute_query
ExecuteQuery(t) ==
    /\ pc[t] = "execute_query"
    /\ \E o \in ExecOutcomes(env.full) :
           NodeReturns(t, "execute_query", execute_query(state[t], db_connection, o))

\* build_graph._format_results
FormatResults(t) ==
    /\ pc[t] = "format_results"
    /\ \E o \in FormatOutcomes(env.full, state[t].question) :
           NodeReturns(t, "format_results", format_results_node(state[t], o))

\* build_graph._explain_query
ExplainQuery(t) ==
    /\ pc[t] = "explain_query"
    /\ \E o \in ExplainOutcomes(env.full) :
           NodeReturns(t, "explain_query", explain_query(state[t], o))

NodeStep(t) ==
    \/ AnalyzeSchema(t)
    \/ FindRelevantTables(t)
    \/ GenerateSql(t)
    \/ ExecuteQuery(t)
    \/ FormatResults(t)
    \/ ExplainQuery(t)

Next == \E t \in Threads : Invoke(t) \/ NodeStep(t)

Spec == Init /\ [][Next]_vars

SessionsSpec == InitSessions /\ [][Next]_vars

\* a started node returns or raises: the calls are blocking and synchronous
FairSpec == Spec /\ \A t \in Threads : WF_vars(NodeStep(t))

(***************************************************************************)
(* SQLQueryValidator on its own: the answer of the generation model is any *)
(* text, here every concatenation of at most MaxParts fragments, and the   *)
(* validator is constructed from it as with_structured_output does.        *)
(***************************************************************************)
\* a JSON answer whose statement has no terminating semicolon
JsonAnswer == "{\"sql_query\": \"SELECT 1\"}"

Fragments ==
    {"SELECT", "SELECT a;", ";", " \t", "\n", ".", "<think>SELECT a;", "</think>", Fence,
     "sql: ", JsonAnswer, "SELECT updated_at FROM t", "x"}

\* the model writes one more piece of its answer
Compose(f) ==
    /\ parts < MaxParts
    /\ model_output' = model_output \o f
    /\ parts' = parts + 1
    /\ response' = NotValidated
    /\ UNCHANGED <<db_connection, env, pc, state, runs, trace, llm_calls, db_calls,
                   first_error, format_context, session_turns, prior_turns>>

\* SQLQueryValidator(sql_query=model_output): the field validator with mode='before'
\* rewrites the value, then the two checks accept it or raise ValueError
Validate ==
    /\ ~response.done
    /\ response' = [done |-> TRUE, cleaned |-> clean_and_extract_sql(model_output)]
                    @@ SQLQueryValidator(model_output)
    /\ UNCHANGED <<db_connection, env, pc, state, runs, trace, llm_calls, db_calls,
                   first_error, format_context, session_turns, prior_turns,
                   model_output, parts>>

ExtractionInit == InitWith({"A"}, TRUE) /\ db_connection = Connected

ExtractionNext == (\E f \in Fragments : Compose(f)) \/ Validate

ExtractionSpec == ExtractionInit /\ [][ExtractionNext]_vars

(***************************************************************************)
(* Properties.                                                             *)
(***************************************************************************)
IsPrefix(a, b) == Len(a) <= Len(b) /\ SubSeq(b, 1, Len(a)) = a

IsSuffix(a, b) == Len(a) <= Len(b) /\ SubSeq(b, Len(b) - Len(a) + 1, Len(b)) = a

LastTurns(h, k) == SubSeq(h, Len(h) - k + 1, Len(h))

Min(a, b) == IF a <= b THEN a ELSE b

NodeOrder ==
    <<"analyze_schema", "find_relevant_tables", "generate_sql",
      "execute_query", "format_results", "explain_query">>

\* C1: at the end of a run in which some stage set error_message, query_results,
\* formatted_response and explanation still have the values they had at the
\* moment the error was first set.
C1_ShortCircuit ==
    \A t \in Threads :
        (pc[t] = END /\ first_error[t].set) =>
            /\ state[t].query_results = first_error[t].query_results
            /\ state[t].formatted_response = first_error[t].formatted_response
            /\ state[t].explanation = first_error[t].explanation

\* C2: once a stage of a run has set error_message, no later stage of that run
\* writes error_message again, so the caller gets the first failing stage's message.
C2_ErrorWrittenOnce ==
    [][\A t \in Threads :
          (pc[t] \in Nodes /\ state[t].error_message # "") =>
              state'[t].error_message = state[t].error_message]_vars

\* C3: every statement execute_query passes to the database starts with SELECT
\* when upper-cased and contains no denylisted keyword, whatever the model returned.
C3_OnlySelectReachesDatabase ==
    \A t \in Threads : \A i \in 1..Len(db_calls[t]) :
        /\ StartsWith(Upper(db_calls[t][i].sql), "SELECT")
        /\ \A k \in 1..Len(prohibited_keywords) :
               ~Contains(Upper(db_calls[t][i].sql), prohibited_keywords[k])

\* a statement recovered from a fenced answer with a think block has been executed
C3_Witness ==
    \E t \in Threads : \E i \in 1..Len(db_calls[t]) : db_calls[t][i].sql = "select a from t;"

\* C4: a statement is sent to the database only when, at the entry of
\* execute_query, error_message is empty, sql_query is non-empty and an engine exists.
C4_ExecuteOnlyWithoutError ==
    \A t \in Threads : \A i \in 1..Len(db_calls[t]) :
        /\ db_calls[t][i].error_message = ""
        /\ db_calls[t][i].sql # ""
        /\ db_calls[t][i].engine

\* C5: every run executes the six nodes once each in the fixed order, one after
\* the other, every node calls the model at most once, and the run reaches END.
C5_FixedOrderAndTermination ==
    /\ [](\A t \in Threads :
             /\ IsPrefix(trace[t], NodeOrder)
             /\ pc[t] \in Nodes => (Len(trace[t]) < Len(NodeOrder) /\ pc[t] = NodeOrder[Len(trace[t]) + 1])
             /\ pc[t] = END => trace[t] = NodeOrder
             /\ \A n \in Nodes : llm_calls[t][n] <= 1)
    /\ \A t \in Threads : (pc[t] \in Nodes) ~> (pc[t] = END)

\* a second run of a session has gone through all six nodes
C5_Witness ==
    \E t \in Threads : pc[t] = END /\ runs[t] = 2 /\ trace[t] = NodeOrder

\* C6: the format_results node appends the user turn and the assistant turn iff
\* after formatting error_message is empty and formatted_response is non-empty;
\* no other step of the run changes chat_history.
C6_AppendIffFormatted ==
    [][\A t \in Threads :
          (pc[t] \in Nodes /\ pc'[t] # pc[t]) =>
              IF /\ pc[t] = "format_results"
                 /\ state'[t].error_message = ""
                 /\ state'[t].formatted_response # ""
              THEN state'[t].chat_history =
                       state[t].chat_history
                       \o <<[role |-> "user", content |-> state[t].question],
                            [role |-> "assistant", content |-> state'[t].formatted_response]>>
              ELSE state'[t].chat_history = state[t].chat_history]_vars

\* a model-written answer has been appended after its question
C6_Witness ==
    \E t \in Threads :
        /\ pc[t] = "explain_query"
        /\ state[t].formatted_response \notin {"", NoResultsMessage}
        /\ state[t].chat_history =
               <<[role |-> "user", content |-> state[t].question],
                 [role |-> "assistant", content |-> state[t].formatted_response]>>

\* C7: the context given to the formatting call of a run is the last min(4, 2n)
\* turns of the session's history, n being the session's earlier successful turns.
C7_HistoryWindow ==
    \A t \in Threads : \A i \in 1..Len(format_context[t]) :
        format_context[t][i] =
            HistoryString(LastTurns(prior_turns[t], Min(HistoryWindow, Len(prior_turns[t]))))

\* C8: the history of a session never shrinks: what a run starts with has the
\* history left by the previous run as a prefix.
C8_HistoryNeverShrinks ==
    [][\A t \in Threads : IsPrefix(state[t].chat_history, state'[t].chat_history)]_vars

C10_NoResultsPath ==
    \A t \in Threads :
        (pc[t] = "format_results" /\ state[t].error_message = "" /\ state[t].query_results = <<>>) =>
            \A o \in FormatOutcomes(TRUE, state[t].question) :
                LET r == format_results(state[t], o)
                IN  /\ r.st = [state[t] EXCEPT !.formatted_response = NoResultsMessage]
                    /\ r.llm = 0
                    /\ r.context = <<>>

\* the formatting node has run on an empty result set without calling the model
C10_Witness ==
    \E t \in Threads :
        /\ pc[t] = "explain_query"
        /\ state[t].sql_query # "" /\ state[t].query_results = <<>>
        /\ state[t].formatted_response = NoResultsMessage
        /\ llm_calls[t]["format_results"] = 0

\* C11: when the model call of format_results fails on a non-empty result set,
\* the stage leaves error_message empty and sets formatted_response to a fallback
\* rendering of the rows, so that the run goes on to the explanation.
C11_FormatFallback ==
    \A t \in Threads :
        (pc[t] = "format_results" /\ state[t].error_message = "" /\ state[t].query_results # <<>>) =>
            \A o \in FormatOutcomes(TRUE, state[t].question) :
                o.raises =>
                    LET r == format_results_node(state[t], o)
                    IN  /\ r.st.error_message = ""
                        /\ r.st.formatted_response # ""

\* C12: a step of generate_sql either sets sql_query to a canonical statement that
\* passes both validators and leaves error_message as it was, or sets
\* error_message and leaves sql_query empty; it writes no other field.
C12_GenerateWritesOneField ==
    [][\A t \in Threads :
          (pc[t] = "generate_sql" /\ pc'[t] # pc[t]) =>
              \/ /\ state'[t] = [state[t] EXCEPT !.sql_query = state'[t].sql_query]
                 /\ state'[t].sql_query # ""
                 /\ EndsWith(state'[t].sql_query, ";")
                 /\ StartsWith(Upper(state'[t].sql_query), "SELECT")
                 /\ \A k \in 1..Len(prohibited_keywords) :
                        ~Contains(Upper(state'[t].sql_query), prohibited_keywords[k])
              \/ /\ state'[t] = [state[t] EXCEPT !.error_message = state'[t].error_message]
                 /\ StartsWith(state'[t].error_message, "Error generating SQL: ")
                 /\ state[t].sql_query = ""
                 /\ state'[t].sql_query = ""]_vars

\* a statement was generated although table selection had failed: the earlier
\* message is still there, and a rejected answer left sql_query empty elsewhere
C12_Witness ==
    \E t \in Threads :
        /\ pc[t] = "execute_query"
        /\ state[t].sql_query = "SELECT a FROM t;"
        /\ StartsWith(state[t].error_message, "Error selecting tables: ")

\* C13: the validator accepts the canonical candidate iff its upper-cased form
\* starts with SELECT and holds none of the eleven denylisted keywords as a
\* substring; SELECT updated_at FROM t; is rejected for the UPDATE in updated_at.
C13_ValidationRule ==
    response.done =>
        /\ response.ok <=>
               /\ StartsWith(Upper(response.cleaned), "SELECT")
               /\ \A kw \in {"INSERT", "UPDATE", "DELETE", "DROP", "ALTER", "CREATE",
                              "TRUNCATE", "REPLACE", "MERGE", "GRANT", "REVOKE"} :
                      ~Contains(Upper(response.cleaned), kw)
        /\ response.ok => response.sql_query = response.cleaned
        /\ response.cleaned = "SELECT updated_at FROM t;" =>
               ~response.ok /\ response.error = "Prohibited SQL operation detected: UPDATE"

\* the statement reading the column updated_at has been rejected
C13_Witness ==
    /\ response.done
    /\ model_output = "SELECT updated_at FROM t"
    /\ response.cleaned = "SELECT updated_at FROM t;"
    /\ ~response.ok

\* canonical text: starts with SELECT, trimmed, every whitespace run a single
\* space, ending in a semicolon
Canonical(s) ==
    /\ StartsWith(Upper(s), "SELECT")
    /\ Strip(s) = s
    /\ CollapseSpace(s) = s
    /\ EndsWith(s, ";")

\* a canonical text that is one plain statement: SELECT followed by a space, its
\* only semicolon at the end, no think tag and no code fence in it
CanonicalStatement(s) ==
    /\ Canonical(s)
    /\ StartsWith(Upper(s), "SELECT ")
    /\ ~Contains(SubSeq(s, 1, Len(s) - 1), ";")
    /\ ~Contains(s, "<think>")
    /\ ~Contains(s, Fence)

\* C14 as stated: extraction returns every canonical text unchanged, and
\* extracting twice equals extracting once whenever the extraction starts with SELECT.
C14_Idempotence ==
    response.done =>
        /\ Canonical(model_output) => response.cleaned = model_output
        /\ StartsWith(Upper(response.cleaned), "SELECT") =>
               clean_and_extract_sql(response.cleaned) = response.cleaned

\* C14 amended: extraction returns unchanged every canonical text that is one
\* plain statement (SELECT and a space first, a single semicolon at the end, no
\* think tag or fence), and extracting twice equals extracting once whenever
\* the first extraction is such a statement.
C14_IdempotenceOnStatements ==
    response.done =>
        /\ CanonicalStatement(model_output) => response.cleaned = model_output
        /\ CanonicalStatement(response.cleaned) =>
               clean_and_extract_sql(response.cleaned) = response.cleaned

\* a canonical statement went through extraction unchanged
C14_Witness ==
    /\ response.done
    /\ model_output = "SELECT a;"
    /\ CanonicalStatement(model_output)
    /\ response.cleaned = "SELECT a;"

\* C15: whatever the model wrote, the extracted text is trimmed, holds no tab or
\* newline and no two spaces in a row, and ends with exactly one semicolon.
C15_Canonicalization ==
    response.done =>
        /\ Strip(response.cleaned) = response.cleaned
        /\ ~Contains(response.cleaned, "\t")
        /\ ~Contains(response.cleaned, "\n")
        /\ ~Contains(response.cleaned, "  ")
        /\ EndsWith(response.cleaned, ";")
        /\ ~EndsWith(response.cleaned, ";;")

\* C16: an answer that opens with a paired think block is extracted exactly as
\* the text after the block, whatever the block holds.
C16_ThinkBlockStripped ==
    (/\ response.done
     /\ StartsWith(model_output, "<think>")
     /\ Contains(Drop(model_output, 7), "</think>")) =>
        LET body == Drop(model_output, 7)
            j == CHOOSE k \in 1..Len(body) :
                     /\ MatchAt(body, "</think>", k)
                     /\ \A m \in 1..(k - 1) : ~MatchAt(body, "</think>", m)
            r == Drop(body, j + 7)
        IN  response.cleaned = clean_and_extract_sql(r)

\* a think block holding a complete statement was dropped and the text after it extracted
C16_Witness ==
    /\ response.done
    /\ model_output = "<think>SELECT a;</think>SELECT updated_at FROM t"
    /\ response.cleaned = "SELECT updated_at FROM t;"

\* the text is a JSON object whose only key is sql_query, with a plain string value
IsJsonSqlQuery(c) ==
    /\ StartsWith(c, "{\"sql_query\": \"")
    /\ EndsWith(c, "\"}")
    /\ Len(c) >= 17
    /\ ~Contains(SubSeq(c, 16, Len(c) - 2), "\"")

JsonSqlQueryValue(c) == SubSeq(c, 16, Len(c) - 2)

\* C17: when the answer, think blocks and fences removed, is a JSON object with
\* the key sql_query, the extracted text is the canonical form of that value,
\* also when the value has no semicolon.
C17_JsonStrategy ==
    response.done =>
        LET c == Strip(RemoveFence(RemoveFence(RemoveThink(model_output), FenceSql), Fence))
        IN  IsJsonSqlQuery(c) => response.cleaned = FinalCleanup(JsonSqlQueryValue(c))

\* C20: every statement that passes extraction and validation holds exactly one
\* semicolon, its last character.
C20_SingleStatement ==
    (response.done /\ response.ok) =>
        /\ EndsWith(response.sql_query, ";")
        /\ ~Contains(SubSeq(response.sql_query, 1, Len(response.sql_query) - 1), ";")

\* C18: whatever the collaborators do (return, raise, no connection), each of
\* the six stage functions returns a state with all its fields, no exception
\* leaves it, and every failure shows as a non-empty error_message.
C18_Totality ==
    \A t \in Threads :
        /\ pc[t] # RAISED
        /\ pc[t] = "analyze_schema" =>
               \A o \in SchemaOutcomes(TRUE) :
                   LET r == analyze_schema(state[t], db_connection, o)
                   IN  /\ ~r.raised /\ DOMAIN r.st = DOMAIN EmptyState
                       /\ (~db_connection.present \/ ~db_connection.db \/ o.raises)
                              => r.st.error_message # ""
        /\ pc[t] = "find_relevant_tables" =>
               \A o \in TableOutcomes(TRUE) :
                   LET r == select_relevant_tables(state[t], o)
                   IN  /\ ~r.raised /\ DOMAIN r.st = DOMAIN EmptyState
                       /\ o.raises => r.st.error_message # ""
        /\ pc[t] = "generate_sql" =>
               \A o \in SqlOutcomes(TRUE) :
                   LET r == generate_sql(state[t], o)
                   IN  /\ ~r.raised /\ DOMAIN r.st = DOMAIN EmptyState
                       /\ (o.raises \/ r.st.sql_query = "") => r.st.error_message # ""
        /\ pc[t] = "execute_query" =>
               \A o \in ExecOutcomes(TRUE) :
                   LET r == execute_query(state[t], db_connection, o)
                   IN  /\ ~r.raised /\ DOMAIN r.st = DOMAIN EmptyState
                       /\ (~db_connection.present \/ ~db_connection.engine \/ o.raises)
                              => r.st.error_message # ""
        /\ pc[t] = "format_results" =>
               \A o \in FormatOutcomes(TRUE, state[t].question) :
                   LET r == format_results_node(state[t], o)
                   IN  /\ ~r.raised /\ DOMAIN r.st = DOMAIN EmptyState
                       /\ (o.raises /\ state[t].query_results # <<>>) => r.st.error_message # ""
        /\ pc[t] = "explain_query" =>
               \A o \in ExplainOutcomes(TRUE) :
                   LET r == explain_query(state[t], o)
                   IN  /\ ~r.raised /\ DOMAIN r.st = DOMAIN EmptyState
                       /\ o.raises => r.st.error_message # ""

\* the explanation call raised after five clean stages and the run still ended
C18_Witness ==
    \E t \in Threads :
        /\ pc[t] = END
        /\ state[t].formatted_response # ""
        /\ state[t].error_message = "Error generating explanation: llm down"

\* C19: at the end of a run either error_message is non-empty, or it is empty
\* and sql_query, formatted_response and explanation are all non-empty.
C19_TerminalDichotomy ==
    \A t \in Threads :
        (pc[t] = END /\ state[t].error_message = "") =>
            /\ state[t].sql_query # ""
            /\ state[t].formatted_response # ""
            /\ state[t].explanation # ""

\* C21: without a live connection (no connection object, or its db handle unset)
\* a step of analyze_schema sets error_message to "No database connection
\* established" whatever the schema provider would have done, and changes no
\* other field.
C21_NoConnection ==
    [][\A t \in Threads :
          (/\ pc[t] = "analyze_schema" /\ pc'[t] # pc[t]
           /\ (~db_connection.present \/ ~db_connection.db)) =>
              state'[t] = [state[t] EXCEPT !.error_message = "No database connection established"]]_vars

\* the schema stage has run on a connection object whose db handle is unset
C21_Witness ==
    \E t \in Threads :
        /\ db_connection.present /\ ~db_connection.db
        /\ pc[t] = "find_relevant_tables"
        /\ state[t].error_message = "No database connection established"
        /\ state[t].db_schema = ""

\* C22: when the execution of a statement fails, the error_message the execute
\* stage sets holds the database's error text: in graph.py after a fixed prefix,
\* in SQLChain followed by the analysis when the diagnostic call returns, and
\* alone after its prefix when the diagnostic call raises.
C22_DatabaseErrorKept ==
    \A t \in Threads :
        (/\ pc[t] = "execute_query" /\ state[t].sql_query # ""
         /\ db_connection.present /\ db_connection.engine) =>
            \A o \in ExecOutcomes(TRUE) :
                o.raises =>
                    /\ execute_query(state[t], db_connection, o).st.error_message =
                           "Unexpected error during query execution: " \o o.error
                    /\ \A d \in DiagnosticOutcomes : \A sqlalchemy \in BOOLEAN :
                           LET r == SQLChain_execute_query(state[t], db_connection, o, sqlalchemy, d)
                               msg == r.st.error_message
                           IN  /\ Contains(msg, o.error)
                               /\ r.st = [state[t] EXCEPT !.error_message = msg]
                               /\ (sqlalchemy /\ ~d.raises) =>
                                      /\ StartsWith(msg, "SQL execution error: " \o o.error)
                                      /\ EndsWith(msg, "Analysis: " \o d.value)
                               /\ (sqlalchemy /\ d.raises) =>
                                      msg = "SQL execution error: " \o o.error

\* the database rejected a validated statement and its error text is in the message
C22_Witness ==
    \E t \in Threads :
        /\ pc[t] = "format_results"
        /\ Len(db_calls[t]) = 1
        /\ state[t].error_message = "Unexpected error during query execution: no such column"

\* C23: when the answer, think blocks and fences removed, holds no SELECT at all,
\* the validator fails with an extraction error (not with the SELECT-prefix
\* rejection) whose message carries the first 100 characters at most of the
\* text, and no sql_query comes out.
C23_ExtractionFails ==
    LET text == Strip(CleanContent(model_output))
    IN  (response.done /\ ~Contains(Upper(text), "SELECT")) =>
            /\ ~response.ok
            /\ response.sql_query = ""
            /\ response.error # "Only SELECT queries are allowed"
            /\ Contains(response.error, SubSeq(text, 1, Min(Len(text), 100)))

\* C24: the extracted text is the canonical form of the leftmost, shortest
\* SELECT <whitespace> ... ; match when the cleaned answer has one; otherwise of
\* the stripped non-blank lines from the first one starting with SELECT through
\* the first of them ending in a semicolon, joined by single spaces; otherwise
\* of the first line containing SELECT.
C24_StrategyPrecedence ==
    response.done =>
        LET c      == CleanContent(model_output)
            lines  == StrippedLines(SplitLines(c))
            starts == {i \in 1..Len(lines) : StartsWith(Upper(lines[i]), "SELECT")}
            holds  == {i \in 1..Len(lines) : Contains(Upper(lines[i]), "SELECT")}
            first  == CHOOSE i \in starts : \A k \in starts : i <= k
            ends   == {i \in first..Len(lines) : EndsWith(lines[i], ";")} \cup {Len(lines)}
            last   == CHOOSE i \in ends : \A k \in ends : i <= k
            from   == {i \in 1..Len(c) : SelectPatternAt(c, i)}
            i0     == CHOOSE i \in from : \A k \in from : i <= k
            semis  == {j \in (i0 + 7)..Len(c) : CharAt(c, j) = ";"}
            j0     == CHOOSE j \in semis : \A k \in semis : j <= k
        IN  IF from # {}
            THEN response.cleaned = FinalCleanup(SubSeq(c, i0, j0))
            ELSE IF starts # {}
            THEN response.cleaned = FinalCleanup(Join(" ", SubSeq(lines, first, last)))
            ELSE holds # {} =>
                     response.cleaned = FinalCleanup(lines[CHOOSE i \in holds : \A k \in holds : i <= k])

\* no SELECT ... ; match: the statement was put together from two lines
C24_Witness ==
    /\ response.done
    /\ model_output = "SELECT\nx"
    /\ response.cleaned = "SELECT x;"

\* C25: an empty table selection is no error: select_relevant_tables stores the
\* empty list and changes nothing else, generate_sql then runs as with any
\* other selection, and such a run can end in success.
C25_EmptySelection ==
    \A t \in Threads :
        /\ pc[t] = "find_relevant_tables" =>
               \A o \in TableOutcomes(TRUE) :
                   (~o.raises /\ o.value = <<>>) =>
                       LET r == select_relevant_tables(state[t], o)
                       IN  /\ r.st = [state[t] EXCEPT !.relevant_tables = <<>>]
                           /\ r.st.error_message = state[t].error_message
        /\ (pc[t] = "generate_sql" /\ state[t].relevant_tables = <<>>) =>
               \A o \in SqlOutcomes(TRUE) :
                   generate_sql(state[t], o).st =
                       [generate_sql([state[t] EXCEPT !.relevant_tables = <<"t">>], o).st
                            EXCEPT !.relevant_tables = <<>>]

\* a run whose table selection was empty has ended in success
C25_Witness ==
    \E t \in Threads :
        /\ pc[t] = END
        /\ state[t].db_schema # "" /\ state[t].relevant_tables = <<>>
        /\ state[t].error_message = ""
        /\ state[t].sql_query # "" /\ state[t].query_results # <<>>
        /\ state[t].formatted_response # "" /\ state[t].explanation # ""

\* C26: entered with a non-empty error_message, the format_results node and the
\* explain_query node make no model call and leave every field as it was.
C26_PassThrough ==
    [][\A t \in Threads :
          (/\ pc[t] \in {"format_results", "explain_query"} /\ pc'[t] # pc[t]
           /\ state[t].error_message # "") =>
              /\ state'[t] = state[t]
              /\ llm_calls'[t] = llm_calls[t]
              /\ format_context'[t] = format_context[t]]_vars

\* the last two nodes have run after an execution error without calling the model
C26_Witness ==
    \E t \in Threads :
        /\ pc[t] = END
        /\ StartsWith(state[t].error_message, "Unexpected error during query execution: ")
        /\ llm_calls[t]["format_results"] = 0 /\ llm_calls[t]["explain_query"] = 0
        /\ state[t].formatted_response = "" /\ state[t].explanation = ""

\* C27: a failing explain_query sets error_message and nothing else: sql_query,
\* query_results and formatted_response keep their values, explanation stays
\* empty, and the turn the formatting node appended is still the end of the history.
C27_ExplanationFailure ==
    [][\A t \in Threads :
          (/\ pc[t] = "explain_query" /\ pc'[t] # pc[t]
           /\ state[t].error_message = "" /\ state'[t].error_message # "") =>
              /\ state'[t] = [state[t] EXCEPT !.error_message = state'[t].error_message]
              /\ StartsWith(state'[t].error_message, "Error generating explanation: ")
              /\ state'[t].explanation = ""
              /\ state'[t].formatted_response # "" =>
                     IsSuffix(<<[role |-> "user", content |-> state'[t].question],
                                [role |-> "assistant", content |-> state'[t].formatted_response]>>,
                              state'[t].chat_history)]_vars

\* the explanation failed after rows were fetched and formatted: the turn is recorded
C27_Witness ==
    \E t \in Threads :
        /\ pc[t] = END
        /\ state[t].error_message = "Error generating explanation: llm down"
        /\ state[t].query_results # <<>>
        /\ state[t].explanation = ""
        /\ Len(state[t].chat_history) = 2
        /\ state[t].chat_history[2].content = state[t].formatted_response

\* C28: a statement is accepted only if the cleaned answer holds a SELECT
\* <whitespace> ... ; match or a line starting with SELECT: a candidate of the
\* last-resort line or of the whole-content fallback never passes validation.
C28_FallbackNeverAccepted ==
    (response.done /\ response.ok) =>
        LET c     == CleanContent(model_output)
            lines == StrippedLines(SplitLines(c))
        IN  \/ \E i \in 1..Len(c) : SelectPatternAt(c, i)
            \/ \E i \in 1..Len(lines) : StartsWith(Upper(lines[i]), "SELECT")

\* a line that merely holds SELECT was the candidate and has been rejected
C28_Witness ==
    /\ response.done
    /\ model_output = "xSELECT"
    /\ response.cleaned = "xSELECT;"
    /\ ~response.ok /\ response.error = "Only SELECT queries are allowed"

\* C29: within a run error_message never goes from non-empty back to empty and
\* explanation is not written after it; a run in which a stage failed ends
\* with error_message non-empty and explanation empty.
C29_ErrorNeverCleared ==
    /\ [][\A t \in Threads :
              (pc[t] \in Nodes /\ state[t].error_message # "") =>
                  /\ state'[t].error_message # ""
                  /\ state'[t].explanation = state[t].explanation]_vars
    /\ [](\A t \in Threads :
              (pc[t] = END /\ first_error[t].set) =>
                  state[t].error_message # "" /\ state[t].explanation = "")

\* a failed run has ended with another message than the first one, not with none
C29_Witness ==
    \E t \in Threads :
        /\ pc[t] = END
        /\ first_error[t].set
        /\ state[t].error_message # first_error[t].error_message
        /\ state[t].sql_query # ""

\* C30: the history has even length and alternates user and assistant turns,
\* each user turn holding a question of the session and the assistant turn
\* after it the formatted_response of that question's run, which is the fixed
\* no-results message or the model's answer to that question.
C30_HistoryShape ==
    \A t \in Threads :
        LET h == state[t].chat_history
        IN  /\ Len(h) % 2 = 0
            /\ \A i \in 1..Len(h) :
                   IF i % 2 = 1
                   THEN /\ h[i].role = "user"
                        /\ h[i].content \in Questions[t]
                   ELSE /\ h[i].role = "assistant"
                        /\ h[i].content \in {NoResultsMessage, "re " \o h[i - 1].content}
            /\ (h # <<>> /\ pc[t] \in {"explain_query", END}) =>
                   /\ h[Len(h) - 1].content = state[t].question
                   /\ h[Len(h)].content = state[t].formatted_response

\* the second run of a session recorded its question with the no-results message
C30_Witness ==
    \E t \in Threads :
        /\ pc[t] = END /\ runs[t] = 2
        /\ state[t].chat_history =
               <<[role |-> "user", content |-> "qa2"],
                 [role |-> "assistant", content |-> NoResultsMessage]>>

====
